---- MODULE Spec2Model ----
(***************************************************************************)
(* Model of the Chat component of src/src/components/chat.rs: the session  *)
(* state (users, messages, current_user), the outbound channel wss.tx, and *)
(* the three events Chat::update handles (HandleMsg, SubmitMessage, React).*)
(*                                                                         *)
(* Encodings                                                               *)
(*   Option<T>      None = <<>>, Some(x) = <<x>>                           *)
(*   Result<T, E>   Err  = <<>>, Ok(x)   = <<x>>                           *)
(*   String (text)  a tuple of one-character strings, " " is whitespace;   *)
(*                  usernames and emojis are atoms, and a username written *)
(*                  into a frame as text is the one-piece tuple <<name>>   *)
(*   JSON member    <<"absent">>, <<"null">>, <<"bad">> (a value of the    *)
(*                  wrong JSON type) or <<"val", v>>                       *)
(*   JSON text      <<"garbage">> (does not parse as an object) or         *)
(*                  <<"json", [member |-> ...]>>                           *)
(***************************************************************************)
EXTENDS Naturals, Sequences, FiniteSets

VARIABLES users, messages, current_user, chat_input, outbox, panicked,
          changed, steps, last, rosterLog, delivered, registered

vars == <<users, messages, current_user, chat_input, outbox, panicked,
          changed, steps, last, rosterLog, delivered, registered>>

\* Number of events one explored session processes.
MaxSteps == 3

None == <<>>
Some(x) == <<x>>
Err == <<>>
Ok(x) == <<x>>

Absent == <<"absent">>
Null == <<"null">>
Bad == <<"bad">>
Val(v) == <<"val", v>>

Usernames == {"alice", "bob"}
Emojis == {"thumbsup", "heart"}

\* Texts the user can have typed into the input element when submitting.
Texts == {<<>>, <<" ">>, <<"h">>, <<" ", "h">>}

----------------------------------------------------------------------------
(* Protocol codec *)

\* MsgTypes with #[serde(rename_all = "lowercase")]: variant <-> wire tag.
MsgTypes == {"Users", "Register", "Message"}

MsgTypeTag(variant) ==
    CASE variant = "Users" -> "users"
      [] variant = "Register" -> "register"
      [] variant = "Message" -> "message"

\* Deserialize of an Option<T> member: a missing member or null is None.
OptionOf(member) == IF member[1] = "val" THEN Some(member[2]) ELSE None

\* Serialize of an Option<T> member: None is written as null.
MemberOf(opt) == IF opt = None THEN Null ELSE Val(opt[1])

\* Mutant of DecodeWebSocketMessage: dataArray is a required member.
DecodeWebSocketMessageStrict(raw) ==
    IF raw[1] # "json" THEN Err
    ELSE LET o == raw[2] IN
         IF o.messageType[1] # "val" THEN Err
         ELSE IF ~(\E v \in MsgTypes : MsgTypeTag(v) = o.messageType[2]) THEN Err
         ELSE IF o.dataArray[1] # "val" \/ o.data[1] = "bad" THEN Err
         ELSE Ok([message_type |-> CHOOSE v \in MsgTypes : MsgTypeTag(v) = o.messageType[2],
                  data_array |-> OptionOf(o.dataArray),
                  data |-> OptionOf(o.data)])

\* serde_json::from_str::<WebSocketMessage>
DecodeWebSocketMessage(raw) ==
    IF raw[1] # "json" THEN Err
    ELSE LET o == raw[2] IN
         IF o.messageType[1] # "val" THEN Err
         ELSE IF ~(\E v \in MsgTypes : MsgTypeTag(v) = o.messageType[2]) THEN Err
         ELSE IF o.dataArray[1] = "bad" \/ o.data[1] = "bad" THEN Err
         ELSE Ok([message_type |-> CHOOSE v \in MsgTypes : MsgTypeTag(v) = o.messageType[2],
                  data_array |-> OptionOf(o.dataArray),
                  data |-> OptionOf(o.data)])

\* serde_json::to_string(&WebSocketMessage), members renamed to camelCase.
EncodeWebSocketMessage(msg) ==
    <<"json", [messageType |-> Val(MsgTypeTag(msg.message_type)),
               dataArray |-> MemberOf(msg.data_array),
               data |-> MemberOf(msg.data)]>>

\* serde_json::from_str::<MessageData> on the text of the data member.
DecodeMessageData(str) ==
    IF str[1] # "json" THEN Err
    ELSE LET o == str[2] IN
         IF o.from[1] # "val" \/ o.message[1] # "val" THEN Err
         ELSE IF o.reactions[1] = "bad" THEN Err
         ELSE Ok([from |-> o.from[2],
                  message |-> o.message[2],
                  reactions |-> OptionOf(o.reactions)])

\* format!("https://avatars.dicebear.com/api/adventurer-neutral/{}.svg", name)
Avatar(name) == <<"https://avatars.dicebear.com/api/adventurer-neutral/", name, ".svg">>

\* str::trim: strip leading and trailing whitespace.
RECURSIVE TrimStart(_)
TrimStart(t) == IF t # <<>> /\ Head(t) = " " THEN TrimStart(Tail(t)) ELSE t

RECURSIVE TrimEnd(_)
TrimEnd(t) ==
    IF t # <<>> /\ t[Len(t)] = " " THEN TrimEnd(SubSeq(t, 1, Len(t) - 1)) ELSE t

Trim(t) == TrimEnd(TrimStart(t))

----------------------------------------------------------------------------
(* Inbound frames the channel can deliver *)

Rosters == {<<>>, <<"alice">>, <<"alice", "bob">>, <<"bob", "alice">>}
Bodies == {<<"h">>, <<" ", "h">>}

ReactionLists ==
    { <<>>,
      << <<"thumbsup", <<"alice", "bob">> >> >>,
      << <<"thumbsup", <<"bob", "bob">> >> >>,
      << <<"thumbsup", <<"alice">> >>, <<"thumbsup", <<"bob">> >> >> }

Payload(from, message, reactions) ==
    <<"json", [from |-> from, message |-> message, reactions |-> reactions]>>

WellFormedPayloads ==
    { Payload(Val(f), Val(b), r) : f \in Usernames, b \in Bodies, r \in {Absent, Null} }
    \cup { Payload(Val("bob"), Val(<<"h">>), Val(r)) : r \in ReactionLists }

MalformedPayloads ==
    { <<"text">>,
      Payload(Absent, Val(<<"h">>), Null),
      Payload(Val("bob"), Absent, Null),
      Payload(Val("bob"), Val(<<"h">>), Bad) }

Frame(messageType, dataArray, data) ==
    <<"json", [messageType |-> messageType, dataArray |-> dataArray, data |-> data]>>

UsersFrames ==
    { Frame(Val("users"), da, Absent) : da \in {Absent, Null} \cup { Val(r) : r \in Rosters } }

MessageFrames ==
    { Frame(Val("message"), Absent, Val(p)) : p \in WellFormedPayloads \cup MalformedPayloads }
    \cup { Frame(Val("message"), Absent, Absent), Frame(Val("message"), Absent, Null) }

RegisterFrames == { Frame(Val("register"), Absent, Val(<<"text">>)) }

UndecodableFrames ==
    { <<"garbage">>,
      Frame(Val("bogus"), Absent, Absent),
      Frame(Absent, Absent, Absent),
      Frame(Val("users"), Bad, Absent),
      Frame(Val("message"), Absent, Bad) }

RawFrames == UsersFrames \cup MessageFrames \cup RegisterFrames \cup UndecodableFrames

----------------------------------------------------------------------------
(* Shapes of inbound frames, read off the wire form *)

\* A wire frame that is not a frame: not JSON, messageType missing or
\* unknown, or a member of the wrong JSON type.
Undecodable(raw) ==
    \/ raw[1] # "json"
    \/ raw[2].messageType \notin {Val("users"), Val("register"), Val("message")}
    \/ raw[2].dataArray = Bad
    \/ raw[2].data = Bad

\* A decodable message frame whose nested payload is absent, not JSON, or
\* lacks from / message.
MalformedNested(raw) ==
    /\ ~Undecodable(raw)
    /\ raw[2].messageType = Val("message")
    /\ \/ raw[2].data[1] # "val"
       \/ raw[2].data[2][1] # "json"
       \/ raw[2].data[2][2].from[1] # "val"
       \/ raw[2].data[2][2].message[1] # "val"

\* A decodable message frame whose nested payload decodes too.
WellFormedMessageFrame(raw) ==
    /\ ~Undecodable(raw)
    /\ raw[2].messageType = Val("message")
    /\ ~MalformedNested(raw)
    /\ raw[2].data[2][2].reactions # Bad

\* The sender and body a well-formed message frame carries.
Carried(raw) ==
    [from |-> raw[2].data[2][2].from[2], message |-> raw[2].data[2][2].message[2]]

----------------------------------------------------------------------------
(* Session state store *)

\* The event the store processed last (history, not program state): its kind
\* and inputs, for a React the reaction set it found (before) and whether it
\* repeats the React processed just before it (twice, with that one's set).
\* rosterLog is the history of the Users frames applied so far, delivered the
\* sender and body of every well-formed message frame the channel delivered
\* (processed or not), registered whether the channel took the Register frame.
NoEvent ==
    [kind |-> "create", raw |-> <<>>, text |-> <<>>, ok |-> FALSE,
     index |-> 0, emoji |-> "", before |-> {}, twice |-> FALSE, orig |-> {}]

\* Mutant of TrySend: a refused frame is sent again until it goes through.
TrySendUntilTaken(chan, frame, ok) == Append(chan, frame)

\* wss.tx.try_send(frame): the channel takes the frame or refuses it.
TrySend(chan, frame, ok) == IF ok THEN Append(chan, frame) ELSE chan

\* WebSocketMessage { message_type: Register, data: Some(username), data_array: None }
RegisterMsg(username) ==
    [message_type |-> "Register", data |-> Some(<<username>>), data_array |-> None]

\* Chat::create
Init ==
    /\ current_user \in Usernames
    /\ users = <<>>
    /\ messages = <<>>
    /\ chat_input = <<>>
    /\ registered \in BOOLEAN
    /\ outbox = TrySend(<<>>, EncodeWebSocketMessage(RegisterMsg(current_user)), registered)
    /\ panicked = FALSE
    /\ changed = FALSE
    /\ steps = 0
    /\ last = NoEvent
    /\ rosterLog = <<>>
    /\ delivered = <<>>

\* usernames.into_iter().map(|name| UserProfile { avatar, name }).collect()
UserProfiles(usernames) ==
    [i \in 1..Len(usernames) |-> [name |-> usernames[i], avatar |-> Avatar(usernames[i])]]

\* Mutant of ApplyUsers: the frame's users are merged into the old roster.
ApplyUsersMerge(old, usernames) == old \o UserProfiles(usernames)

\* self.users = ...: the roster after a Users frame carrying usernames.
ApplyUsers(old, usernames) == UserProfiles(usernames)

\* Mutant of PushMessage: the new message is put in front.
PushMessageFront(msgs, message_data) == <<message_data>> \o msgs

\* self.messages.push(message_data)
PushMessage(msgs, message_data) == Append(msgs, message_data)

\* Option::unwrap on None and Result::unwrap on Err panic. The panic happens
\* before the handler mutates anything; the component does not run again
\* afterwards (on the wasm target a panic aborts), so every event is guarded
\* by ~panicked.
Panic(ev) ==
    /\ panicked' = TRUE
    /\ last' = ev
    /\ steps' = steps + 1
    /\ UNCHANGED <<users, messages, current_user, chat_input, outbox, changed, rosterLog>>

\* Mutant of Unhandled: an inbound register frame re-assigns the current user.
UnhandledAdoptsUser(ev) ==
    /\ current_user' = CHOOSE u \in Usernames : u # current_user
    /\ changed' = FALSE
    /\ last' = ev
    /\ steps' = steps + 1
    /\ UNCHANGED <<users, messages, chat_input, outbox, panicked, rosterLog>>

\* The `_ => false` arm: a frame of any other message type.
Unhandled(ev) ==
    /\ changed' = FALSE
    /\ last' = ev
    /\ steps' = steps + 1
    /\ UNCHANGED <<users, messages, current_user, chat_input, outbox, panicked, rosterLog>>

\* The channel's delivery log after it delivered data.
LogDelivery(log, data) ==
    IF WellFormedMessageFrame(data) THEN Append(log, Carried(data)) ELSE log

\* Chat::update, Msg::HandleMsg(data)
HandleMsg(data) ==
    /\ ~panicked
    /\ steps < MaxSteps
    /\ delivered' = LogDelivery(delivered, data)
    /\ UNCHANGED registered
    /\ LET ev == [NoEvent EXCEPT !.kind = "HandleMsg", !.raw = data]
           decoded == DecodeWebSocketMessage(data)
       IN  IF decoded = Err THEN Panic(ev)
           ELSE LET msg == decoded[1] IN
             CASE msg.message_type = "Users" ->
                    /\ users' = ApplyUsers(users, IF msg.data_array = None THEN <<>>
                                                  ELSE msg.data_array[1])
                    /\ changed' = TRUE
                    /\ rosterLog' = Append(rosterLog, data)
                    /\ last' = ev
                    /\ steps' = steps + 1
                    /\ UNCHANGED <<messages, current_user, chat_input, outbox, panicked>>
               [] msg.message_type = "Message" ->
                    IF msg.data = None THEN Panic(ev)
                    ELSE LET md == DecodeMessageData(msg.data[1]) IN
                         IF md = Err THEN Panic(ev)
                         ELSE /\ messages' = PushMessage(messages, md[1])
                              /\ changed' = TRUE
                              /\ last' = ev
                              /\ steps' = steps + 1
                              /\ UNCHANGED <<users, current_user, chat_input, outbox,
                                             panicked, rosterLog>>
               [] OTHER -> Unhandled(ev)

\* Mutant of ShouldSend: the emptiness test without the trim.
ShouldSendUntrimmed(text) == text # <<>>

\* if !text.trim().is_empty(): whether the submit sends at all.
ShouldSend(text) == Trim(text) # <<>>

\* Mutant of SubmitFrame: the frame carries the trimmed text.
SubmitFrameTrimmed(text) ==
    [message_type |-> "Message", data |-> Some(Trim(text)), data_array |-> None]

\* Mutant of SubmitFrame: the frame is tagged as the one built in create.
SubmitFrameRegister(text) ==
    [message_type |-> "Register", data |-> Some(text), data_array |-> None]

\* WebSocketMessage { message_type: Message, data: Some(text.clone()), data_array: None }
SubmitFrame(text) ==
    [message_type |-> "Message", data |-> Some(text), data_array |-> None]

\* Mutant of SubmitMessage: a sent text is also echoed into messages locally.
SubmitMessageEcho(text, ok) ==
    /\ ~panicked
    /\ steps < MaxSteps
    /\ outbox' = IF ShouldSend(text)
                 THEN TrySend(outbox, EncodeWebSocketMessage(SubmitFrame(text)), ok)
                 ELSE outbox
    /\ messages' = IF ShouldSend(text)
                   THEN Append(messages, [from |-> current_user, message |-> text,
                                          reactions |-> None])
                   ELSE messages
    /\ chat_input' = <<>>
    /\ changed' = FALSE
    /\ last' = [NoEvent EXCEPT !.kind = "SubmitMessage", !.text = text, !.ok = ok]
    /\ steps' = steps + 1
    /\ UNCHANGED <<users, current_user, panicked, rosterLog, delivered, registered>>

\* Chat::update, Msg::SubmitMessage. text is input.value(), what the user has
\* typed when the event is handled (ok: whether the channel accepts a send
\* now); input.set_value("") leaves the input element empty.
SubmitMessage(text, ok) ==
    /\ ~panicked
    /\ steps < MaxSteps
    /\ outbox' = IF ShouldSend(text)
                 THEN TrySend(outbox, EncodeWebSocketMessage(SubmitFrame(text)), ok)
                 ELSE outbox
    /\ chat_input' = <<>>
    /\ changed' = FALSE
    /\ last' = [NoEvent EXCEPT !.kind = "SubmitMessage", !.text = text, !.ok = ok]
    /\ steps' = steps + 1
    /\ UNCHANGED <<users, messages, current_user, panicked, rosterLog, delivered, registered>>

\* reactions.iter_mut().find(|(e, _)| e == &emoji): position of the first entry.
FindEmoji(reactions, emoji) ==
    LET hits == { i \in 1..Len(reactions) : reactions[i][1] = emoji }
    IN  IF hits = {} THEN 0 ELSE CHOOSE i \in hits : \A j \in hits : i <= j

Contains(list, user) == \E i \in 1..Len(list) : list[i] = user

\* Mutant of Retain: only the first occurrence is removed.
RECURSIVE RetainFirstOnly(_, _)
RetainFirstOnly(list, user) ==
    IF list = <<>> THEN <<>>
    ELSE IF Head(list) = user THEN Tail(list)
    ELSE <<Head(list)>> \o RetainFirstOnly(Tail(list), user)

\* users.retain(|u| u != &user)
Retain(list, user) == SelectSeq(list, LAMBDA u : u # user)

\* Mutant of ToggleUser: the user is added whether or not it is present.
ToggleUserAlwaysAdds(list, user) == Append(list, user)

\* The toggle on one entry's user list.
ToggleUser(list, user) ==
    IF Contains(list, user) THEN Retain(list, user) ELSE Append(list, user)

\* Mutant of ReactMessage: an emoji without an entry replaces the whole list.
ReactMessageOverwrite(m, emoji, user) ==
    IF m.reactions # None
    THEN LET reactions == m.reactions[1]
             k == FindEmoji(reactions, emoji)
         IN  IF k # 0
             THEN [m EXCEPT !.reactions =
                      Some([reactions EXCEPT ![k] = <<emoji, ToggleUser(reactions[k][2], user)>>])]
             ELSE [m EXCEPT !.reactions = Some(<< <<emoji, <<user>> >> >>)]
    ELSE [m EXCEPT !.reactions = Some(<< <<emoji, <<user>> >> >>)]

\* The body of `if let Some(msg) = self.messages.get_mut(index)`.
ReactMessage(m, emoji, user) ==
    IF m.reactions # None
    THEN LET reactions == m.reactions[1]
             k == FindEmoji(reactions, emoji)
         IN  IF k # 0
             THEN [m EXCEPT !.reactions =
                      Some([reactions EXCEPT ![k] = <<emoji, ToggleUser(reactions[k][2], user)>>])]
             ELSE [m EXCEPT !.reactions = Some(Append(reactions, <<emoji, <<user>> >>))]
    ELSE [m EXCEPT !.reactions = Some(<< <<emoji, <<user>> >> >>)]

\* What the view reads as the reaction set of an emoji (first entry found).
Members(m, emoji) ==
    IF m.reactions = None THEN {}
    ELSE LET k == FindEmoji(m.reactions[1], emoji)
         IN  IF k = 0 THEN {}
             ELSE { m.reactions[1][k][2][i] : i \in 1..Len(m.reactions[1][k][2]) }

\* self.messages.get_mut(index).is_some(), index counted from 0.
InRange(msgs, index) == index < Len(msgs)

\* Mutant of ReactResult: React never reports a change.
ReactResultNever(msgs, index) == FALSE

\* Mutant of ReactResult: React always reports a change.
ReactResultAlways(msgs, index) == TRUE

\* What the React arm returns: true in the Some arm, false in the else arm.
ReactResult(msgs, index) == InRange(msgs, index)

\* Mutant of React: an applied toggle is also broadcast on the channel.
ReactBroadcast(index, emoji) ==
    /\ ~panicked
    /\ steps < MaxSteps
    /\ LET ev == [NoEvent EXCEPT !.kind = "React", !.index = index, !.emoji = emoji] IN
       IF InRange(messages, index)
       THEN /\ messages' = [messages EXCEPT ![index + 1] =
                               ReactMessage(messages[index + 1], emoji, current_user)]
            /\ outbox' = Append(outbox, EncodeWebSocketMessage(
                              [message_type |-> "Message", data |-> Some(<<emoji>>),
                               data_array |-> None]))
            /\ last' = [ev EXCEPT
                  !.before = Members(messages[index + 1], emoji),
                  !.twice = (last.kind = "React" /\ last.index = index /\ last.emoji = emoji),
                  !.orig = last.before]
       ELSE /\ last' = ev
            /\ UNCHANGED <<messages, outbox>>
    /\ changed' = ReactResult(messages, index)
    /\ steps' = steps + 1
    /\ UNCHANGED <<users, current_user, chat_input, panicked, rosterLog,
                   delivered, registered>>

\* Chat::update, Msg::React(index, emoji)
React(index, emoji) ==
    /\ ~panicked
    /\ steps < MaxSteps
    /\ LET ev == [NoEvent EXCEPT !.kind = "React", !.index = index, !.emoji = emoji] IN
       IF InRange(messages, index)
       THEN /\ messages' = [messages EXCEPT ![index + 1] =
                               ReactMessage(messages[index + 1], emoji, current_user)]
            /\ last' = [ev EXCEPT
                  !.before = Members(messages[index + 1], emoji),
                  !.twice = (last.kind = "React" /\ last.index = index /\ last.emoji = emoji),
                  !.orig = last.before]
       ELSE /\ last' = ev
            /\ UNCHANGED messages
    /\ changed' = ReactResult(messages, index)
    /\ steps' = steps + 1
    /\ UNCHANGED <<users, current_user, chat_input, outbox, panicked, rosterLog,
                   delivered, registered>>

\* A frame the channel delivers after a panic: the callback posts
\* Msg::HandleMsg, but update never runs again, so the frame has no effect.
Lost(data) ==
    /\ panicked
    /\ steps < MaxSteps
    /\ delivered' = LogDelivery(delivered, data)
    /\ last' = [NoEvent EXCEPT !.kind = "Lost", !.raw = data]
    /\ steps' = steps + 1
    /\ UNCHANGED <<users, messages, current_user, chat_input, outbox, panicked,
                   changed, rosterLog, registered>>

Next ==
    \/ \E data \in RawFrames : HandleMsg(data)
    \/ \E data \in RawFrames : Lost(data)
    \/ \E text \in Texts, ok \in BOOLEAN : SubmitMessage(text, ok)
    \/ \E index \in 0..(Len(messages) + 1), emoji \in Emojis : React(index, emoji)

Spec == Init /\ [][Next]_vars

----------------------------------------------------------------------------
(* Properties *)

\* The usernames a Users frame carries, read off the wire frame.
FrameRoster(raw) == IF raw[2].dataArray[1] = "val" THEN raw[2].dataArray[2] ELSE <<>>

\* C1: the roster is exactly the usernames of the Users frame applied last,
\* in the frame's order, each with the avatar of that name; it is empty
\* before the first Users frame.
C1_RosterIsLatestUsersFrame ==
    LET names == IF rosterLog = <<>> THEN <<>> ELSE FrameRoster(rosterLog[Len(rosterLog)])
    IN  /\ Len(users) = Len(names)
        /\ \A i \in 1..Len(names) :
              /\ users[i].name = names[i]
              /\ users[i].avatar = Avatar(names[i])

\* A second Users frame with a shorter roster replaced a longer one.
C1_Witness ==
    /\ Len(rosterLog) = 2
    /\ FrameRoster(rosterLog[1]) = <<"alice", "bob">>
    /\ FrameRoster(rosterLog[2]) = <<"alice">>
    /\ Len(users) = 1

NoDuplicates(list) == \A i, j \in 1..Len(list) : list[i] = list[j] => i = j

\* C2: in every message, every reaction entry lists a username at most once,
\* messages received with a reactions list included.
C2_NoDuplicateReactors ==
    \A n \in 1..Len(messages) :
        messages[n].reactions # None =>
            \A k \in 1..Len(messages[n].reactions[1]) :
                NoDuplicates(messages[n].reactions[1][k][2])

\* C3: an undecodable inbound frame is dropped: the state is unchanged and
\* the session goes on.
C3_MalformedFrameDropped ==
    [][(last'.kind = "HandleMsg" /\ Undecodable(last'.raw))
         => /\ users' = users
            /\ messages' = messages
            /\ current_user' = current_user
            /\ ~panicked']_vars

\* C4: a message frame with a malformed nested payload aborts only that
\* frame: nothing is appended, the state is unchanged, the session goes on.
C4_MalformedPayloadDropped ==
    [][(last'.kind = "HandleMsg" /\ MalformedNested(last'.raw))
         => /\ users' = users
            /\ messages' = messages
            /\ current_user' = current_user
            /\ ~panicked']_vars

\* C5: two React(index, emoji) in a row leave the membership of that emoji's
\* reaction set on that message as it was before the first.
C5_DoubleToggleRestores ==
    (last.kind = "React" /\ last.twice)
        => Members(messages[last.index + 1], last.emoji) = last.orig

\* The same toggle ran twice on a set that held currentUser and another user.
C5_Witness ==
    /\ last.kind = "React"
    /\ last.twice
    /\ last.orig = {"alice", "bob"}
    /\ current_user = "bob"

IsBlank(text) == \A i \in 1..Len(text) : text[i] = " "

\* C6: a submit of an empty or whitespace-only text puts nothing on the
\* outbound channel.
C6_BlankSubmitSendsNothing ==
    [][(last'.kind = "SubmitMessage" /\ IsBlank(last'.text)) => outbox' = outbox]_vars

\* A whitespace-only text was submitted while the channel accepted sends.
C6_Witness ==
    /\ last.kind = "SubmitMessage"
    /\ last.text = <<" ">>
    /\ last.ok

\* C7: a submit of a text that is not blank, on a channel that accepts it,
\* adds exactly one frame: messageType "message", data the text as typed,
\* dataArray carrying nothing.
C7_SubmitSendsOneMessageFrame ==
    [][(last'.kind = "SubmitMessage" /\ ~IsBlank(last'.text) /\ last'.ok)
         => /\ Len(outbox') = Len(outbox) + 1
            /\ SubSeq(outbox', 1, Len(outbox)) = outbox
            /\ LET f == outbox'[Len(outbox')] IN
                 /\ f[1] = "json"
                 /\ f[2].messageType = Val("message")
                 /\ f[2].data = Val(last'.text)
                 /\ f[2].dataArray \in {Absent, Null}]_vars

\* A text with leading whitespace was submitted and sent.
C7_Witness ==
    /\ last.kind = "SubmitMessage"
    /\ last.text = <<" ", "h">>
    /\ last.ok
    /\ outbox # <<>>

\* C8: a submit changes neither users, messages nor currentUser, whatever
\* the text and whether or not the send went through.
C8_SubmitLeavesStateAlone ==
    [][last'.kind = "SubmitMessage"
         => /\ users' = users
            /\ messages' = messages
            /\ current_user' = current_user]_vars

\* A text was submitted and sent while no message has been received.
C8_Witness ==
    /\ last.kind = "SubmitMessage"
    /\ last.text = <<"h">>
    /\ last.ok
    /\ outbox # <<>>
    /\ messages = <<>>

\* C9: React with an index at or past the number of messages changes
\* nothing, ends nothing, and reports no change.
C9_OutOfRangeReactIsNoOp ==
    [][(last'.kind = "React" /\ last'.index >= Len(messages))
         => /\ users' = users
            /\ messages' = messages
            /\ current_user' = current_user
            /\ ~panicked'
            /\ changed' = FALSE]_vars

\* React hit the first index past the end of a list of two messages.
C9_Witness ==
    /\ last.kind = "React"
    /\ Len(messages) = 2
    /\ last.index = 2
    /\ ~changed

\* C10: a well-formed inbound Message frame appends exactly one entry at the
\* end, sender and body from the payload, no reactions when the payload's
\* reactions is null or absent; earlier entries and the roster stay.
C10_MessageFrameAppendsOne ==
    [][(last'.kind = "HandleMsg" /\ WellFormedMessageFrame(last'.raw))
         => LET p == last'.raw[2].data[2][2] IN
            /\ Len(messages') = Len(messages) + 1
            /\ SubSeq(messages', 1, Len(messages)) = messages
            /\ messages'[Len(messages')].from = p.from[2]
            /\ messages'[Len(messages')].message = p.message[2]
            /\ (p.reactions \in {Absent, Null}
                   => messages'[Len(messages')].reactions = None)
            /\ users' = users]_vars

\* A second message, different from the first, was appended with no
\* reactions while a roster was present.
C10_Witness ==
    /\ last.kind = "HandleMsg"
    /\ WellFormedMessageFrame(last.raw)
    /\ Len(messages) = 2
    /\ messages[1].from # messages[2].from
    /\ messages[2].reactions = None
    /\ users # <<>>

\* C11: messages never shrinks, the sender and body at an index never
\* change, and messages is the list of well-formed message payloads in the
\* order the channel delivered them.
C11_MessagesAreDeliveredPayloads ==
    [][/\ Len(messages') >= Len(messages)
       /\ \A i \in 1..Len(messages) :
             /\ messages'[i].from = messages[i].from
             /\ messages'[i].message = messages[i].message
       /\ Len(messages') = Len(delivered')
       /\ \A i \in 1..Len(messages') :
             /\ messages'[i].from = delivered'[i].from
             /\ messages'[i].message = delivered'[i].message]_vars

IsRegisterFrame(f, username) ==
    /\ f[1] = "json"
    /\ f[2].messageType = Val("register")
    /\ f[2].data = Val(<<username>>)

\* The original C12: the outbound channel carries exactly one Register frame.
C12_ExactlyOneRegister ==
    Cardinality({ i \in 1..Len(outbox) : outbox[i][2].messageType = Val("register") }) = 1

\* C12 (amended): a Register frame carrying the current username is sent at
\* creation exactly when the channel takes it, as the first outbound frame,
\* and no later frame is a Register frame.
C12_RegisterOnlyAtCreation ==
    /\ registered <=> (outbox # <<>> /\ IsRegisterFrame(outbox[1], current_user))
    /\ \A i \in 1..Len(outbox) :
          outbox[i][2].messageType = Val("register") => (i = 1 /\ registered)

\* The Register frame went out and a Message frame followed it.
C12_Witness ==
    /\ registered
    /\ Len(outbox) = 2
    /\ outbox[2][2].messageType = Val("message")
    /\ steps = 3

\* C13: a React puts nothing on the outbound channel; the channel changes
\* only by one Message frame added by a submit of a text that is not blank.
C13_ReactSendsNothing ==
    [][/\ last'.kind = "React" => outbox' = outbox
       /\ outbox' # outbox =>
             /\ last'.kind = "SubmitMessage"
             /\ ~IsBlank(last'.text)
             /\ Len(outbox') = Len(outbox) + 1
             /\ outbox'[Len(outbox')][2].messageType = Val("message")
       /\ \A i \in 1..Len(outbox) :
             outbox[i][2].messageType \in {Val("register"), Val("message")}]_vars

\* An in-range React was applied while the channel held sent frames.
C13_Witness ==
    /\ last.kind = "React"
    /\ last.index < Len(messages)
    /\ changed
    /\ outbox # <<>>

\* The events update ran to completion on.
Completed(ev, dead) == ev.kind \in {"HandleMsg", "SubmitMessage", "React"} /\ ~dead

\* The original C14: the change signal is true exactly when the event
\* changed users or messages.
C14_SignalIffChanged ==
    [][Completed(last', panicked')
         => (changed' <=> (users' # users \/ messages' # messages))]_vars

\* C14 (amended): the change signal is true exactly for an applied Users
\* frame, an applied Message frame and an in-range React, so every event
\* that changes users or messages reports true and an event reporting false
\* changed nothing; an inbound register frame changes nothing and reports
\* false.
C14_SignalCoversEveryChange ==
    [][Completed(last', panicked')
         => /\ changed' <=>
                 \/ /\ last'.kind = "HandleMsg"
                    /\ last'.raw[2].messageType \in {Val("users"), Val("message")}
                 \/ /\ last'.kind = "React"
                    /\ last'.index < Len(messages)
            /\ (users' # users \/ messages' # messages) => changed'
            /\ (last'.kind = "HandleMsg" /\ last'.raw[2].messageType = Val("register"))
                 => (~changed' /\ users' = users /\ messages' = messages)]_vars

\* An inbound register frame was processed after a message had been
\* appended, and reported no change.
C14_Witness ==
    /\ last.kind = "HandleMsg"
    /\ last.raw \in RegisterFrames
    /\ messages # <<>>
    /\ ~changed
    /\ ~panicked

\* C15: a refused send is not fatal and is not made again. Without the
\* Register frame the session starts with the same state and runs on; a
\* refused submit leaves state and channel as they were, and every frame
\* that appears on the channel later is the frame of the submit that adds it.
C15_FailedSendNotRetried ==
    [][/\ steps = 0 => (users = <<>> /\ messages = <<>> /\ ~panicked
                         /\ (~registered => outbox = <<>>))
       /\ (last'.kind = "SubmitMessage" /\ ~last'.ok)
            => /\ outbox' = outbox
               /\ users' = users
               /\ messages' = messages
               /\ current_user' = current_user
               /\ ~panicked'
       /\ outbox' # outbox
            => /\ last'.kind = "SubmitMessage"
               /\ last'.ok
               /\ outbox' = Append(outbox, Frame(Val("message"), Null, Val(last'.text)))
       /\ ~registered' => \A i \in 1..Len(outbox') :
                              outbox'[i][2].messageType # Val("register")]_vars

\* The Register send was refused, an inbound frame was applied, and then a
\* submit of a sendable text was refused too.
C15_Witness ==
    /\ ~registered
    /\ last.kind = "SubmitMessage"
    /\ ~IsBlank(last.text)
    /\ ~last.ok
    /\ messages # <<>>
    /\ outbox = <<>>

\* C16: no event changes currentUser.
C16_CurrentUserFixed == [][current_user' = current_user]_vars

\* A Users frame that does not list the current user was applied, and an
\* inbound register frame was processed.
C16_Witness ==
    /\ current_user = "bob"
    /\ rosterLog # <<>>
    /\ FrameRoster(rosterLog[Len(rosterLog)]) = <<"alice">>
    /\ last.kind = "HandleMsg"
    /\ last.raw \in RegisterFrames

\* Whether the message has an entry for the emoji at all.
HasEntry(m, emoji) == m.reactions # None /\ FindEmoji(m.reactions[1], emoji) # 0

\* C17: an in-range React flips currentUser's membership in the emoji's set
\* on that message; a set that did not exist is created holding currentUser
\* alone, and removing the only member leaves the set empty.
C17_ReactIsXorOnCurrentUser ==
    [][(last'.kind = "React" /\ last'.index < Len(messages))
         => LET old == messages[last'.index + 1]
                new == messages'[last'.index + 1]
                e == last'.emoji
            IN  /\ (current_user \in Members(new, e)) <=> (current_user \notin Members(old, e))
                /\ ~HasEntry(old, e) => Members(new, e) = {current_user}
                /\ Members(old, e) = {current_user} => Members(new, e) = {}]_vars

\* The toggle took the current user, the only member, out of a set.
C17_Witness ==
    /\ last.kind = "React"
    /\ last.index < Len(messages)
    /\ last.before = {current_user}
    /\ Members(messages[last.index + 1], last.emoji) = {}

\* C18: an in-range React changes only currentUser's membership in that
\* emoji's set on that message: the other usernames in the set, the sets of
\* the other emojis, sender and body, every other message, the roster and
\* currentUser stay as they were.
C18_ReactTouchesOnlyItsSet ==
    [][(last'.kind = "React" /\ last'.index < Len(messages))
         => LET n == last'.index + 1
                e == last'.emoji
            IN  /\ Len(messages') = Len(messages)
                /\ \A k \in 1..Len(messages) : k # n => messages'[k] = messages[k]
                /\ messages'[n].from = messages[n].from
                /\ messages'[n].message = messages[n].message
                /\ Members(messages'[n], e) \ {current_user}
                      = Members(messages[n], e) \ {current_user}
                /\ \A f \in Emojis : f # e =>
                      Members(messages'[n], f) = Members(messages[n], f)
                /\ users' = users
                /\ current_user' = current_user]_vars

\* The toggle hit the second of two messages, with an emoji that message had
\* no entry for, while it held another emoji's set.
C18_Witness ==
    /\ last.kind = "React"
    /\ Len(messages) = 2
    /\ last.index = 1
    /\ last.emoji = "heart"
    /\ Members(messages[2], "thumbsup") # {}
    /\ Members(messages[2], "heart") = {current_user}

\* C19: in every message an emoji is the key of at most one reaction entry.
C19_OneEntryPerEmoji ==
    \A n \in 1..Len(messages) :
        messages[n].reactions # None =>
            \A j, k \in 1..Len(messages[n].reactions[1]) :
                messages[n].reactions[1][j][1] = messages[n].reactions[1][k][1] => j = k

\* C20: a Users frame without a dataArray is applied as the empty roster:
\* users becomes empty, messages stay, the change signal is true and the
\* frame is not rejected.
C20_UsersFrameWithoutArray ==
    [][(last'.kind = "HandleMsg"
          /\ last'.raw \in {Frame(Val("users"), Absent, Absent), Frame(Val("users"), Null, Absent)})
         => /\ users' = <<>>
            /\ messages' = messages
            /\ changed'
            /\ ~panicked'
            /\ Len(rosterLog') = Len(rosterLog) + 1]_vars

\* A Users frame without the dataArray member emptied a roster of two.
C20_Witness ==
    /\ Len(rosterLog) = 2
    /\ Len(FrameRoster(rosterLog[1])) = 2
    /\ rosterLog[2] = Frame(Val("users"), Absent, Absent)
    /\ last.raw = rosterLog[2]
    /\ users = <<>>

====
